---- MODULE Spec2Model ----
(***************************************************************************)
(* Model of reorder_invoices.py: the normalizer, the scan that builds the  *)
(* document pool (build_pdf_map), the per-ledger reconciliation            *)
(* (process_excel) and the main loop that merges the per-ledger unmatched  *)
(* dictionaries into the global leftover bundle (Spec, SpecScan,           *)
(* SpecLedger); of norm and company_from_filename called on their own      *)
(* (SpecPure); and of the two splitting tools, split_by_person.split_excel *)
(* and excel_split_to_sheets.split_to_sheets with safe_save_xlsx           *)
(* (SpecSplit).                                                            *)
(*                                                                         *)
(* Strings are sequences of Unicode code points.  Python lists are objects *)
(* of a heap (heap[id] is the content of list id) so that two names bound  *)
(* to one list are visible as such.  Python dicts are sequences of         *)
(* [k, v] entries in insertion order.                                      *)
(***************************************************************************)
EXTENDS Integers, Sequences, FiniteSets, TLC

\* ------------------------------------------------------------------ bounds
MaxFiles == 3

MaxRows == 2

MaxLedgers == 2

\* Longest argument of norm tried.
MaxStrLen == 3

\* Most underscore-separated segments of a stem tried.
MaxSegs == 3

\* ------------------------------------------------------- string primitives
\* unicodedata.normalize("NFKC", .) on the alphabet of the model: ASCII, the
\* full-width forms U+FF01..U+FF5E (decomposed to ASCII), the ideographic
\* space U+3000 (decomposed to U+0020), the combining acute accent U+0301 with
\* the two letters it composes with on the alphabet (U+00E1 = a + U+0301,
\* U+00C1 = A + U+0301), and the CJK punctuation named by norm's character
\* class, which NFKC leaves alone.  NfkcChar is the compatibility
\* decomposition of one character.
NfkcChar(c) ==
    IF c >= 65281 /\ c <= 65374 THEN <<c - 65248>>
    ELSE IF c = 12288 THEN <<32>>
    ELSE IF c = 225 THEN <<97, 769>>
    ELSE IF c = 193 THEN <<65, 769>>
    ELSE <<c>>

RECURSIVE Decompose(_)
Decompose(s) ==
    IF s = <<>> THEN <<>> ELSE NfkcChar(Head(s)) \o Decompose(Tail(s))

\* Canonical composition, r the part already composed: U+0301 merges into the
\* character right before it when that is a or A; after any other character
\* (a starter without a composite, or another U+0301, which blocks) it stays.
RECURSIVE Compose(_, _)
Compose(r, s) ==
    IF s = <<>> THEN r
    ELSE IF Head(s) = 769 /\ r # <<>> /\ r[Len(r)] \in {97, 65}
         THEN Compose([r EXCEPT ![Len(r)] = IF @ = 97 THEN 225 ELSE 193], Tail(s))
         ELSE Compose(Append(r, Head(s)), Tail(s))

\* re.sub(r"\s+", "", .): the characters \s matches on the alphabet.
IsSpace(c) == c \in {9, 10, 11, 12, 13, 28, 29, 30, 31, 32}

\* The character class of norm's second re.sub:
\* ( ) U+FF08 U+FF09 U+3010 U+3011 [ ] U+300C U+300D U+300E U+300F U+201C
\* U+201D " ' U+3001 U+FF0C U+FF0E U+00B7 U+2022 - U+2014
IsStripped(c) ==
    c \in {40, 41, 65288, 65289, 12304, 12305, 91, 93, 12300, 12301, 12302,
           12303, 8220, 8221, 34, 39, 12289, 65292, 65294, 183, 8226, 45, 8212}

\* str.upper() on the alphabet.
UpperChar(c) ==
    IF c >= 97 /\ c <= 122 THEN <<c - 32>>
    ELSE IF c = 225 THEN <<193>>
    ELSE <<c>>

Nfkc(s) == Compose(<<>>, Decompose(s))

DropSpace(s) == SelectSeq(s, LAMBDA c : ~IsSpace(c))

DropStripped(s) == SelectSeq(s, LAMBDA c : ~IsStripped(c))

RECURSIVE Upper(_)
Upper(s) == IF s = <<>> THEN <<>> ELSE UpperChar(Head(s)) \o Upper(Tail(s))

norm(txt) == Upper(DropStripped(DropSpace(Nfkc(txt))))

\* Index of the first "_" (95) of s, 0 when there is none.
RECURSIVE FirstUnderscore(_, _)
FirstUnderscore(s, i) ==
    IF i > Len(s) THEN 0
    ELSE IF s[i] = 95 THEN i
    ELSE FirstUnderscore(s, i + 1)

\* str.split("_")
RECURSIVE SplitUnderscore(_)
SplitUnderscore(s) ==
    LET u == FirstUnderscore(s, 1) IN
    IF u = 0 THEN <<s>>
    ELSE <<SubSeq(s, 1, u - 1)>> \o SplitUnderscore(SubSeq(s, u + 1, Len(s)))

company_from_subject(subject) ==
    LET u == FirstUnderscore(subject, 1) IN
    norm(IF u = 0 THEN subject ELSE SubSeq(subject, u + 1, Len(subject)))

\* re.fullmatch(r"\d{14}", p)
\* \d on a str pattern matches every Unicode decimal digit; of the characters
\* the model draws from these are the ASCII and the full-width digits.
IsDigit(c) == (c >= 48 /\ c <= 57) \/ (c >= 65296 /\ c <= 65305)

IsTimestamp(p) == Len(p) = 14 /\ \A i \in 1..14 : IsDigit(p[i])

\* for p in reversed(parts): the last part, scanning from the end, that is no
\* timestamp; found = FALSE when the loop ends without returning.
RECURSIVE LastNonTimestamp(_, _)
LastNonTimestamp(parts, i) ==
    IF i = 0 THEN [found |-> FALSE, part |-> <<>>]
    ELSE IF ~IsTimestamp(parts[i]) THEN [found |-> TRUE, part |-> parts[i]]
    ELSE LastNonTimestamp(parts, i - 1)

company_from_filename_notwo(stem) ==
    LET parts == SplitUnderscore(stem)
        hit == LastNonTimestamp(parts, Len(parts))
    IN  IF hit.found THEN norm(hit.part) ELSE norm(stem)

company_from_filename(stem) ==
    LET parts == SplitUnderscore(stem)
        hit == LastNonTimestamp(parts, Len(parts))
    IN  IF Len(parts) = 2 THEN norm(parts[2])
        ELSE IF hit.found THEN norm(hit.part)
        ELSE norm(stem)

\* Python's str "<": lexicographic by code point.
RECURSIVE StrLess(_, _)
StrLess(a, b) ==
    IF b = <<>> THEN FALSE
    ELSE IF a = <<>> THEN TRUE
    ELSE IF Head(a) # Head(b) THEN Head(a) < Head(b)
    ELSE StrLess(Tail(a), Tail(b))

\* ------------------------------------------------------------------ inputs
\* The files the directory walk can meet: stem, number of pages, and whether
\* PdfReader can open the file.
\*   "A b" -> AB (2 pages)    "x_c" -> C    "()" -> the empty key
\*   U+FF23 (full-width C) -> C, a file PdfReader cannot open
\*   "A b" again, a file that is no PDF by suffix or by content
FileSamples ==
    { [stem |-> <<65, 32, 98>>, pages |-> 2, ok |-> TRUE,
       suffix |-> TRUE, magic |-> TRUE],
      [stem |-> <<120, 95, 99>>, pages |-> 1, ok |-> TRUE,
       suffix |-> FALSE, magic |-> TRUE],
      [stem |-> <<40, 41>>, pages |-> 1, ok |-> TRUE,
       suffix |-> TRUE, magic |-> TRUE],
      [stem |-> <<65315>>, pages |-> 1, ok |-> FALSE,
       suffix |-> TRUE, magic |-> FALSE],
      [stem |-> <<65, 32, 98>>, pages |-> 0, ok |-> FALSE,
       suffix |-> FALSE, magic |-> FALSE] }

\* suffix: p.suffix.lower() == ".pdf"; magic: the file can be opened and its
\* first five bytes are "%PDF-" (an open that raises gives False).
is_pdf_file(f) == f.suffix \/ f.magic

\* The values a cell of the counterparty column can hold:
\*   "r_ab" -> AB    "r_C" -> C    "r_" -> the empty key
SubjectSamples == { <<114, 95, 97, 98>>, <<114, 95, 67>>, <<114, 95>> }

RowSeqs == UNION { [1..n -> SubjectSamples] : n \in 0..MaxRows }

\* A ledger as pd.read_excel returns it: whether the counterparty column is
\* there, and the column's cells in row order.
Ledgers ==
    { [hasCol |-> TRUE, rows |-> r] : r \in RowSeqs }
    \cup { [hasCol |-> FALSE, rows |-> <<>>] }

\* ------------------------------------------------------------------- dicts
DictKeys(d) == { d[i].k : i \in 1..Len(d) }

DictHas(d, key) == key \in DictKeys(d)

DictGet(d, key) == d[CHOOSE i \in 1..Len(d) : d[i].k = key].v

\* -------------------------------------------------------------------- state
VARIABLES
    pc,               \* where the run is
    scanned,          \* the documents found so far; document d is scanned[d]
    heap,             \* heap[id]: the content of Python list id
    pdf_map,          \* the pool: dict key -> list id
    excel_n,          \* ledgers taken from excel_paths so far
    df,               \* the counterparty column of the ledger being processed
    counter,          \* collections.Counter of the ledger's keys
    idx,              \* rows of df already iterated
    seen,
    missing_rows,
    used,
    writer,           \* pages of the ledger's bundle, each <<document, page>>
    out_pdf,          \* the bundle file process_excel wrote
    out_excel,        \* the annotated ledger copy process_excel wrote
    out_txt,          \* the unmatched listing process_excel wrote
    unmatched,        \* what process_excel returned
    unmatched_global, \* dict key -> list id
    writer_u,         \* pages of the global leftover bundle
    error,            \* the uncaught exception that ended the run
    allSeen,          \* history: keys of the ledgers processed so far
    everUsed,         \* history: keys ever added to a ledger's used set
    \* ---- one call of a pure function (norm, company_from_filename)
    fn,               \* the function called, "none" outside such a call
    segs,             \* the segments the stem was joined from
    txt,              \* the argument
    ret,              \* fn(txt)
    ret2,             \* norm(ret)
    alt,              \* a second argument, a variant of txt
    altret,           \* norm(alt)
    pstep,            \* how far the calls have got
    \* ---- split_by_person.split_excel and excel_split_to_sheets.split_to_sheets
    tool,             \* which of the two runs, "none" outside such a run
    keep_empty,
    ws,               \* the name column of the summary sheet, data rows only
    src_row,          \* r, the sheet row the loop is at (the header is row 1)
    books,            \* OrderedDict person -> sheet, a sheet lists source rows
    existing_titles,
    disk,             \* the files split_excel saved: path -> workbook
    saved,            \* books the save loop has written
    out_file,         \* the file at out_path of safe_save_xlsx
    out_before,       \* history: that file when safe_save_xlsx was called
    tmp,              \* the temporary file of safe_save_xlsx
    rm_failed,        \* history: os.remove(tmp) raised
    spc,              \* position in the run
    serr              \* the exception that ended it

mainvars ==
    <<pc, scanned, heap, pdf_map, excel_n, df, counter, idx, seen,
      missing_rows, used, writer, out_pdf, out_excel, out_txt, unmatched,
      unmatched_global, writer_u, error, allSeen, everUsed>>

purevars == <<fn, segs, txt, ret, ret2, alt, altret, pstep>>

splitvars ==
    <<tool, keep_empty, ws, src_row, books, existing_titles, disk, saved,
      out_file, out_before, tmp, rm_failed, spc, serr>>

\* What the run of main leaves alone.
others == <<purevars, splitvars>>

vars == <<mainvars, purevars, splitvars>>

NoFile == [written |-> FALSE, pages |-> <<>>]

NoReturn == [none |-> TRUE, items |-> <<>>]

NoSheet == [written |-> FALSE, red |-> <<>>]

NoListing == [written |-> FALSE, lines |-> <<>>]

locals ==
    <<df, counter, idx, seen, missing_rows, used, writer, out_pdf, out_excel,
      out_txt>>

LocalsCleared ==
    /\ df = <<>>
    /\ counter = <<>>
    /\ idx = 0
    /\ seen = {}
    /\ missing_rows = <<>>
    /\ used = {}
    /\ writer = <<>>
    /\ out_pdf = NoFile
    /\ out_excel = NoSheet
    /\ out_txt = NoListing

\* No pure function is being called.
PureIdle ==
    /\ fn = "none"
    /\ segs = <<>>
    /\ txt = <<>>
    /\ ret = <<>>
    /\ ret2 = <<>>
    /\ alt = <<>>
    /\ altret = <<>>
    /\ pstep = "none"

\* main at position p with nothing scanned or processed yet.
MainAt(p) ==
    /\ pc = p
    /\ scanned = <<>>
    /\ heap = <<>>
    /\ pdf_map = <<>>
    /\ excel_n = 0
    /\ LocalsCleared
    /\ unmatched = NoReturn
    /\ unmatched_global = <<>>
    /\ writer_u = <<>>
    /\ error = "none"
    /\ allSeen = {}
    /\ everUsed = {}

\* No file at out_path; the file an earlier run left there.
AbsentFile == [state |-> "absent", sheets |-> <<>>]

OldFile == [state |-> "old", sheets |-> <<>>]

\* Neither splitting tool runs.
SplitIdle ==
    /\ tool = "none"
    /\ keep_empty = FALSE
    /\ ws = <<>>
    /\ src_row = 2
    /\ books = <<>>
    /\ existing_titles = {}
    /\ disk = <<>>
    /\ saved = 0
    /\ out_file = AbsentFile
    /\ out_before = AbsentFile
    /\ tmp = "absent"
    /\ rm_failed = FALSE
    /\ spc = "none"
    /\ serr = "none"

Init == MainAt("scan") /\ PureIdle /\ SplitIdle

\* ------------------------------------------------------------ build_pdf_map
SetDefaultAppend_overwrite(d, h, key, doc) ==
    IF DictHas(d, key)
    THEN [dict |-> d, heap |-> [h EXCEPT ![DictGet(d, key)] = <<doc>>]]
    ELSE [dict |-> Append(d, [k |-> key, v |-> Len(h) + 1]),
          heap |-> Append(h, <<doc>>)]

\* pdf_map.setdefault(key, []).append(doc)
SetDefaultAppend(d, h, key, doc) ==
    IF DictHas(d, key)
    THEN [dict |-> d, heap |-> [h EXCEPT ![DictGet(d, key)] = Append(@, doc)]]
    ELSE [dict |-> Append(d, [k |-> key, v |-> Len(h) + 1]),
          heap |-> Append(h, <<doc>>)]

\* One iteration of the rglob loop: a file that fails is_pdf_file is passed
\* over, any other is appended to the bucket of its key.
ScanFile(f) ==
    /\ pc = "scan"
    /\ UNCHANGED others
    /\ Len(scanned) < MaxFiles
    /\ IF is_pdf_file(f)
       THEN LET doc == Len(scanned) + 1
                r == SetDefaultAppend(pdf_map, heap,
                                      company_from_filename(f.stem), doc)
            IN  /\ scanned' = Append(scanned, f)
                /\ pdf_map' = r.dict
                /\ heap' = r.heap
       ELSE UNCHANGED <<scanned, pdf_map, heap>>
    /\ UNCHANGED <<pc, excel_n, locals, unmatched, unmatched_global, writer_u,
                   error, allSeen, everUsed>>

\* The walk is over: build_pdf_map returns and main lists the ledgers.
ScanDone ==
    /\ pc = "scan"
    /\ UNCHANGED others
    /\ pc' = "main"
    /\ UNCHANGED <<scanned, heap, pdf_map, excel_n, locals, unmatched,
                   unmatched_global, writer_u, error, allSeen, everUsed>>

\* ------------------------------------------------------------ process_excel
\* collections.Counter(company_from_subject(c) for c in df[...]): a dict
\* key -> count, keys in the order of their first row.
RECURSIVE CountKeys(_, _)
CountKeys(c, rows) ==
    IF rows = <<>> THEN c
    ELSE LET key == company_from_subject(Head(rows))
             c2 == IF DictHas(c, key)
                   THEN [i \in 1..Len(c) |->
                            IF c[i].k = key THEN [k |-> key, v |-> c[i].v + 1]
                            ELSE c[i]]
                   ELSE Append(c, [k |-> key, v |-> 1])
         IN  CountKeys(c2, Tail(rows))

\* if comp in seen: continue
IsDuplicate_never(comp, s) == FALSE

IsDuplicate(comp, s) == comp \in s

\* bucket = pdf_map.get(comp, [])
BucketOf_first(d, h, comp) ==
    IF DictHas(d, comp) THEN SubSeq(h[DictGet(d, comp)], 1, 1) ELSE <<>>

BucketOf(d, h, comp) == IF DictHas(d, comp) THEN h[DictGet(d, comp)] ELSE <<>>

SheetRow_noheader(i) == i + 1

\* r = idx + 2, idx the 0-based position of the row
SheetRow(i) == i + 2

\* PdfReader(pdf).pages
PagesOf(doc, sc) == [p \in 1..sc[doc].pages |-> <<doc, p>>]

\* for pdf in files: for pg in PdfReader(pdf).pages: writer.add_page(pg)
\* ok = FALSE when PdfReader raised; pages holds what was added before that.
RECURSIVE ReadDocs(_, _)
ReadDocs(docs, sc) ==
    IF docs = <<>> THEN [ok |-> TRUE, pages |-> <<>>]
    ELSE IF ~sc[Head(docs)].ok THEN [ok |-> FALSE, pages |-> <<>>]
    ELSE LET rest == ReadDocs(Tail(docs), sc)
         IN  [ok |-> rest.ok, pages |-> PagesOf(Head(docs), sc) \o rest.pages]

\* The two orders the code sorts dict items by: must item a come before
\* item b?  byCount: key=lambda kv: len(kv[1]), reverse=True (line 137);
\* otherwise the plain order of (key, list) tuples, decided by the keys, which
\* differ (line 169).
ItemBefore(byCount, a, b, h) ==
    IF byCount THEN Len(h[a.v]) > Len(h[b.v]) ELSE StrLess(a.k, b.k)

\* sorted(): Python's sort is stable, also under reverse=True, so an item
\* goes behind every item it need not come before.
RECURSIVE InsertSorted(_, _, _, _)
InsertSorted(byCount, e, s, h) ==
    IF s = <<>> THEN <<e>>
    ELSE IF ItemBefore(byCount, e, Head(s), h) THEN <<e>> \o s
    ELSE <<Head(s)>> \o InsertSorted(byCount, e, Tail(s), h)

RECURSIVE SortItems(_, _, _)
SortItems(byCount, d, h) ==
    IF d = <<>> THEN <<>>
    ELSE InsertSorted(byCount, d[Len(d)],
                      SortItems(byCount, SubSeq(d, 1, Len(d) - 1), h), h)

\* sorted(unmatched.items(), key=lambda kv: len(kv[1]), reverse=True)
SortedByCountDesc(d, h) == SortItems(TRUE, d, h)

\* unmatched = {k: v for k, v in pdf_map.items()
\*              if k not in used and k not in counter}
UnmatchedOf(d, u, c) ==
    SelectSeq(d, LAMBDA e : e.k \notin u /\ ~DictHas(c, e.k))

\* pd.read_excel and the column test; with the column, the set-up of the loop.
BeginExcel(l) ==
    /\ pc = "main"
    /\ UNCHANGED others
    /\ excel_n < MaxLedgers
    /\ excel_n' = excel_n + 1
    /\ IF ~l.hasCol
       THEN /\ unmatched' = NoReturn
            /\ pc' = "ret"
            /\ UNCHANGED locals
       ELSE /\ df' = l.rows
            /\ counter' = CountKeys(<<>>, l.rows)
            /\ idx' = 0
            /\ seen' = {}
            /\ missing_rows' = <<>>
            /\ used' = {}
            /\ writer' = <<>>
            /\ pc' = "rows"
            /\ UNCHANGED <<out_pdf, out_excel, out_txt, unmatched>>
    /\ UNCHANGED <<scanned, heap, pdf_map, unmatched_global, writer_u, error,
                   allSeen, everUsed>>

\* One iteration of "for idx, row in df.iterrows()".
ProcessRow ==
    /\ pc = "rows"
    /\ UNCHANGED others
    /\ idx < Len(df)
    /\ LET comp == company_from_subject(df[idx + 1])
           bucket == BucketOf(pdf_map, heap, comp)
           r == ReadDocs(bucket, scanned)
       IN  IF IsDuplicate(comp, seen)
           THEN /\ idx' = idx + 1
                /\ UNCHANGED <<pc, seen, missing_rows, used, writer, error,
                               everUsed>>
           ELSE /\ seen' = seen \cup {comp}
                /\ IF bucket # <<>>
                   THEN /\ used' = used \cup {comp}
                        /\ everUsed' = everUsed \cup {comp}
                        /\ writer' = writer \o r.pages
                        /\ IF r.ok
                           THEN /\ idx' = idx + 1
                                /\ UNCHANGED <<pc, error>>
                           ELSE /\ pc' = "crashed"
                                /\ error' = "PdfReadError"
                                /\ UNCHANGED idx
                        /\ UNCHANGED missing_rows
                   ELSE /\ missing_rows' = Append(missing_rows, SheetRow(idx))
                        /\ idx' = idx + 1
                        /\ UNCHANGED <<pc, used, writer, error, everUsed>>
    /\ UNCHANGED <<scanned, heap, pdf_map, excel_n, df, counter, out_pdf,
                   out_excel, out_txt, unmatched, unmatched_global, writer_u,
                   allSeen>>

BundleFile_always(w) == [written |-> TRUE, pages |-> w]

\* if writer.pages: writer.write(out_pdf)
BundleFile(w) == IF w # <<>> THEN [written |-> TRUE, pages |-> w] ELSE NoFile

\* After the loop: the three outputs and the returned dict.
FinishExcel ==
    /\ pc = "rows"
    /\ UNCHANGED others
    /\ idx = Len(df)
    /\ LET um == UnmatchedOf(pdf_map, used, counter) IN
       /\ out_pdf' = BundleFile(writer)
       /\ out_excel' = [written |-> TRUE, red |-> missing_rows]
       /\ out_txt' = IF um # <<>>
                     THEN [written |-> TRUE,
                           lines |-> [i \in 1..Len(um) |->
                               LET e == SortedByCountDesc(um, heap)[i]
                               IN  [comp |-> e.k, files |-> heap[e.v]]]]
                     ELSE NoListing
       /\ unmatched' = [none |-> FALSE, items |-> um]
    /\ pc' = "ret"
    /\ UNCHANGED <<scanned, heap, pdf_map, excel_n, df, counter, idx, seen,
                   missing_rows, used, writer, unmatched_global, writer_u,
                   error, allSeen, everUsed>>

\* --------------------------------------------------------------------- main
\* unmatched_global.setdefault(k, []): the list a new key starts with, as
\* [heap, id]; v is the list the pool holds for k.
DefaultList_alias(h, v) == [heap |-> h, id |-> v]

DefaultList(h, v) == [heap |-> Append(h, <<>>), id |-> Len(h) + 1]

\* for k, v in unmatched.items(): unmatched_global.setdefault(k, []).extend(v)
RECURSIVE MergeItems(_, _, _)
MergeItems(items, g, h) ==
    IF items = <<>> THEN [dict |-> g, heap |-> h]
    ELSE LET e == Head(items)
             has == DictHas(g, e.k)
             fresh == DefaultList(h, e.v)
             h1 == IF has THEN h ELSE fresh.heap
             id == IF has THEN DictGet(g, e.k) ELSE fresh.id
             g1 == IF has THEN g ELSE Append(g, [k |-> e.k, v |-> id])
             h2 == [h1 EXCEPT ![id] = @ \o h1[e.v]]
         IN  MergeItems(Tail(items), g1, h2)

\* The loop body in main after process_excel returned.  None has no items():
\* the AttributeError is caught nowhere.  The frame of process_excel is gone,
\* and the name unmatched is rebound before it is read again.
MergeUnmatched ==
    /\ pc = "ret"
    /\ UNCHANGED others
    /\ IF unmatched.none
       THEN /\ pc' = "crashed"
            /\ error' = "AttributeError"
            /\ UNCHANGED <<heap, unmatched_global, allSeen, locals, unmatched>>
       ELSE /\ LET r == MergeItems(unmatched.items, unmatched_global, heap)
               IN  /\ unmatched_global' = r.dict
                   /\ heap' = r.heap
            /\ allSeen' = allSeen \cup DictKeys(counter)
            /\ df' = <<>>
            /\ counter' = <<>>
            /\ idx' = 0
            /\ seen' = {}
            /\ missing_rows' = <<>>
            /\ used' = {}
            /\ writer' = <<>>
            /\ out_pdf' = NoFile
            /\ out_excel' = NoSheet
            /\ out_txt' = NoListing
            /\ unmatched' = NoReturn
            /\ pc' = "main"
            /\ UNCHANGED error
    /\ UNCHANGED <<scanned, pdf_map, excel_n, writer_u, everUsed>>

\* sorted(unmatched_global.items()): tuples compare by key first, and the
\* keys of a dict differ.
SortedByKey(d, h) == SortItems(FALSE, d, h)

GlobalOrder_bycount(d, h) == SortedByCountDesc(d, h)

GlobalOrder(d, h) == SortedByKey(d, h)

RECURSIVE ConcatLists(_, _)
ConcatLists(d, h) ==
    IF d = <<>> THEN <<>> ELSE h[Head(d).v] \o ConcatLists(Tail(d), h)

\* excel_paths is empty: sys.exit(0) before any ledger.
NoExcel ==
    /\ pc = "main"
    /\ UNCHANGED others
    /\ excel_n = 0
    /\ pc' = "done"
    /\ UNCHANGED <<scanned, heap, pdf_map, excel_n, locals, unmatched,
                   unmatched_global, writer_u, error, allSeen, everUsed>>

\* The for loop over excel_paths is over: the global leftover bundle.
BuildGlobal ==
    /\ pc = "main"
    /\ UNCHANGED others
    /\ excel_n >= 1
    /\ IF unmatched_global # <<>>
       THEN LET r == ReadDocs(ConcatLists(GlobalOrder(unmatched_global, heap), heap),
                              scanned)
            IN  /\ writer_u' = r.pages
                /\ IF r.ok
                   THEN pc' = "done" /\ UNCHANGED error
                   ELSE pc' = "crashed" /\ error' = "PdfReadError"
       ELSE /\ pc' = "done"
            /\ UNCHANGED <<writer_u, error>>
    /\ UNCHANGED <<scanned, heap, pdf_map, excel_n, locals, unmatched,
                   unmatched_global, allSeen, everUsed>>

Next ==
    \/ \E f \in FileSamples : ScanFile(f)
    \/ ScanDone
    \/ NoExcel
    \/ \E l \in Ledgers : BeginExcel(l)
    \/ ProcessRow
    \/ FinishExcel
    \/ MergeUnmatched
    \/ BuildGlobal

Spec == Init /\ [][Next]_vars

\* build_pdf_map alone: the walk up to its return.
NextScan ==
    \/ \E f \in FileSamples : ScanFile(f)
    \/ ScanDone

SpecScan == Init /\ [][NextScan]_vars

\* process_excel on the first ledger main hands it, from the call to the
\* return, over every pool build_pdf_map can have built.
FirstLedger(l) == excel_n = 0 /\ BeginExcel(l)

NextLedger ==
    \/ \E f \in FileSamples : ScanFile(f)
    \/ ScanDone
    \/ \E l \in Ledgers : FirstLedger(l)
    \/ ProcessRow
    \/ FinishExcel

SpecLedger == Init /\ [][NextLedger]_vars

\* ------------------------------------------- norm and company_from_filename
\* The functions called on their own.  The arguments of norm are the strings
\* up to MaxStrLen over  a  A  U+FF21 (full-width A)  space  (  {  U+0301.
NormAlphabet == {97, 65, 65313, 32, 40, 123, 769}

NormArgs == UNION { [1..n -> NormAlphabet] : n \in 0..MaxStrLen }

\* A second argument, one edit away from x by what norm is to ignore: a space,
\* a parenthesis or a curly bracket put in anywhere, or a letter swapped for
\* its other case or width.
InsertAt(x, i, c) == SubSeq(x, 1, i) \o <<c>> \o SubSeq(x, i + 1, Len(x))

LetterForms(c) == IF c \in {97, 65, 65313} THEN {97, 65, 65313} \ {c} ELSE {}

Variants(x) ==
    { InsertAt(x, i[1], i[2]) : i \in (0..Len(x)) \X {32, 40, 123} }
    \cup UNION { { [x EXCEPT ![i] = d] : d \in LetterForms(x[i]) } : i \in 1..Len(x) }

\* The segments stems are joined from: "20240101120000", the same with a
\* full-width first digit, the 13 digits "2024010112000", "ab" and "".
SegSamples ==
    { <<50, 48, 50, 52, 48, 49, 48, 49, 49, 50, 48, 48, 48, 48>>,
      <<65298, 48, 50, 52, 48, 49, 48, 49, 49, 50, 48, 48, 48, 48>>,
      <<50, 48, 50, 52, 48, 49, 48, 49, 49, 50, 48, 48, 48>>,
      <<97, 98>>,
      <<>> }

SegLists == UNION { [1..n -> SegSamples] : n \in 1..MaxSegs }

\* "_".join(parts)
RECURSIVE JoinUnderscore(_)
JoinUnderscore(parts) ==
    IF Len(parts) = 1 THEN parts[1]
    ELSE parts[1] \o <<95>> \o JoinUnderscore(Tail(parts))

InitPure ==
    /\ MainAt("idle")
    /\ SplitIdle
    /\ pstep = "in"
    /\ ret = <<>> /\ ret2 = <<>> /\ alt = <<>> /\ altret = <<>>
    /\ \/ fn = "norm" /\ segs = <<>> /\ txt \in NormArgs
       \/ /\ fn = "company_from_filename"
          /\ segs \in SegLists
          /\ txt = JoinUnderscore(segs)

CallNorm ==
    /\ fn = "norm" /\ pstep = "in"
    /\ ret' = norm(txt)
    /\ pstep' = "out"
    /\ UNCHANGED <<mainvars, splitvars, fn, segs, txt, ret2, alt, altret>>

\* norm applied to its own result.
CallNormAgain ==
    /\ fn = "norm" /\ pstep = "out"
    /\ ret2' = norm(ret)
    /\ pstep' = "again"
    /\ UNCHANGED <<mainvars, splitvars, fn, segs, txt, ret, alt, altret>>

\* norm applied to a variant of the first argument.
CallNormVariant(y) ==
    /\ fn = "norm" /\ pstep = "out"
    /\ alt' = y
    /\ altret' = norm(y)
    /\ pstep' = "alt"
    /\ UNCHANGED <<mainvars, splitvars, fn, segs, txt, ret, ret2>>

CallCompanyFromFilename ==
    /\ fn = "company_from_filename" /\ pstep = "in"
    /\ ret' = company_from_filename(txt)
    /\ pstep' = "out"
    /\ UNCHANGED <<mainvars, splitvars, fn, segs, txt, ret2, alt, altret>>

NextPure ==
    \/ CallNorm
    \/ CallNormAgain
    \/ \E y \in Variants(txt) : CallNormVariant(y)
    \/ CallCompanyFromFilename

SpecPure == InitPure /\ [][NextPure]_vars

\* ------------------------------ split_by_person and excel_split_to_sheets
\* Most data rows of a summary sheet tried.
MaxSrcRows == 3

\* Longest sheet title make_sheet_title returns.
TitleLimit == 31

\* "汇总"
Summary == <<27719, 24635>>

\* "未命名"
Unnamed == <<26410, 21629, 21517>>

\* str.strip()
RECURSIVE LStrip(_)
LStrip(s) == IF s # <<>> /\ IsSpace(Head(s)) THEN LStrip(Tail(s)) ELSE s

RECURSIVE RStrip(_)
RStrip(s) ==
    IF s # <<>> /\ IsSpace(s[Len(s)]) THEN RStrip(SubSeq(s, 1, Len(s) - 1)) ELSE s

Strip(s) == LStrip(RStrip(s))

\* re.sub(r"\s*汇总$", "", s) on a stripped s: a final "汇总" goes, with the
\* whitespace right before it.
DropSummary(s) ==
    IF Len(s) >= 2 /\ SubSeq(s, Len(s) - 1, Len(s)) = Summary
    THEN RStrip(SubSeq(s, 1, Len(s) - 2))
    ELSE s

base_name(s) == Strip(DropSummary(Strip(s)))

\* re.sub(r'[\\/:*?"<>|]', "_", name)
sanitize_filename(name) ==
    [i \in 1..Len(name) |->
        IF name[i] \in {92, 47, 58, 42, 63, 34, 60, 62, 124} THEN 95 ELSE name[i]]

\* x or "未命名"
OrUnnamed(x) == IF x = <<>> THEN Unnamed ELSE x

\* safe = sanitize_filename(person) or "未命名"; the path is out_dir/safe.xlsx
OutPath(person) == OrUnnamed(sanitize_filename(person))

\* Worksheet.title = value raises ValueError when value holds one of \ * ? : / [ ]
TitleRejected(title) ==
    \E i \in 1..Len(title) : title[i] \in {92, 42, 63, 58, 47, 91, 93}

\* str(i)
RECURSIVE Digits(_)
Digits(i) == IF i < 10 THEN <<48 + i>> ELSE Digits(i \div 10) \o <<48 + (i % 10)>>

\* s[:k]
SliceTo(s, k) ==
    IF k >= Len(s) THEN s
    ELSE IF k >= 0 THEN SubSeq(s, 1, k)
    ELSE IF Len(s) + k > 0 THEN SubSeq(s, 1, Len(s) + k)
    ELSE <<>>

RECURSIVE TitleLoop_untruncated(_, _, _, _)
TitleLoop_untruncated(base, title, i, existing) ==
    IF title \notin existing THEN title
    ELSE TitleLoop_untruncated(base, base \o <<95>> \o Digits(i), i + 1, existing)

\* The while loop of make_sheet_title.
RECURSIVE TitleLoop(_, _, _, _)
TitleLoop(base, title, i, existing) ==
    IF title \notin existing THEN title
    ELSE LET suffix == <<95>> \o Digits(i)
         IN  TitleLoop(base, SliceTo(base, TitleLimit - Len(suffix)) \o suffix,
                       i + 1, existing)

make_sheet_title(person, existing) ==
    LET named == OrUnnamed(Strip(OrUnnamed(person)))
        title == [i \in 1..Len(named) |->
                     IF named[i] \in {58, 92, 47, 42, 63, 91, 93} THEN 95
                     ELSE named[i]]
        base == SliceTo(title, TitleLimit)
    IN  TitleLoop(base, base, 2, existing)

\* The cells of the name column: "X", "X 汇总", " 汇总", "A<B", "A>B", "A:B".
NameSamples ==
    { <<88>>, <<88, 32>> \o Summary, <<32>> \o Summary,
      <<65, 60, 66>>, <<65, 62, 66>>, <<65, 58, 66>> }

NameColumns == UNION { [1..n -> NameSamples] : n \in 0..MaxSrcRows }

\* ws.max_row
SrcMaxRow == Len(ws) + 1

\* Position of person's entry in the OrderedDict, 0 when it has none.
BookOf(bk, person) ==
    IF \E i \in 1..Len(bk) : bk[i].k = person
    THEN CHOOSE i \in 1..Len(bk) : bk[i].k = person
    ELSE 0

\* A new sheet after copy_header_and_dimensions: the header in row 1.
NewSheet == <<1>>

\* dst_next_row = dst_ws.max_row + 1
NextRow(sheet) == Len(sheet) + 1

\* write_row_from_src(ws, dst_ws, r, dst_next_row); a sheet lists, row by row,
\* the source row each of its rows was copied from.
WriteRow(sheet, at, r) ==
    IF at = Len(sheet) + 1 THEN Append(sheet, r) ELSE [sheet EXCEPT ![at] = r]

\* books[person]["ws"] gets source row r.
AddRow(bk, person, r) ==
    [bk EXCEPT ![BookOf(bk, person)].sheet = WriteRow(@, NextRow(@), r)]

InitSplit ==
    /\ MainAt("idle")
    /\ PureIdle
    /\ tool \in {"split_by_person", "excel_split_to_sheets"}
    /\ keep_empty \in BOOLEAN
    /\ ws \in NameColumns
    /\ src_row = 2
    /\ books = <<>>
    /\ existing_titles = {}
    /\ disk = <<>>
    /\ saved = 0
    /\ out_file = AbsentFile
    /\ out_before = AbsentFile
    /\ tmp = "absent"
    /\ rm_failed = FALSE
    /\ spc = "rows"
    /\ serr = "none"

\* One iteration of the row loop of split_excel.
SplitExcelRow ==
    /\ tool = "split_by_person" /\ spc = "rows"
    /\ src_row <= SrcMaxRow
    /\ LET person == base_name(ws[src_row - 1])
           title == OrUnnamed(person)
       IN  IF person = <<>> /\ ~keep_empty
           THEN /\ src_row' = src_row + 1
                /\ UNCHANGED <<books, spc, serr>>
           ELSE IF BookOf(books, person) = 0 /\ TitleRejected(title)
           THEN /\ spc' = "raised"
                /\ serr' = "ValueError"
                /\ UNCHANGED <<books, src_row>>
           ELSE /\ books' = AddRow(IF BookOf(books, person) = 0
                                   THEN Append(books, [k |-> person, title |-> title,
                                                       sheet |-> NewSheet])
                                   ELSE books,
                                   person, src_row)
                /\ src_row' = src_row + 1
                /\ UNCHANGED <<spc, serr>>
    /\ UNCHANGED <<mainvars, purevars, tool, keep_empty, ws, existing_titles,
                   disk, saved, out_file, out_before, tmp, rm_failed>>

\* wb2.save(out_path): the file at the path is created or replaced.
SaveAt(d, path, wb) ==
    IF \E i \in 1..Len(d) : d[i].path = path
    THEN [i \in 1..Len(d) |-> IF d[i].path = path THEN [path |-> path, wb |-> wb]
                              ELSE d[i]]
    ELSE Append(d, [path |-> path, wb |-> wb])

\* One iteration of the save loop of split_excel.
SaveBook ==
    /\ tool = "split_by_person" /\ spc = "rows"
    /\ src_row = SrcMaxRow + 1
    /\ saved < Len(books)
    /\ disk' = SaveAt(disk, OutPath(books[saved + 1].k), books[saved + 1])
    /\ saved' = saved + 1
    /\ UNCHANGED <<mainvars, purevars, tool, keep_empty, ws, src_row, books,
                   existing_titles, out_file, out_before, tmp, rm_failed, spc,
                   serr>>

\* return list(books.keys()), header
SplitExcelReturn ==
    /\ tool = "split_by_person" /\ spc = "rows"
    /\ src_row = SrcMaxRow + 1
    /\ saved = Len(books)
    /\ spc' = "done"
    /\ UNCHANGED <<mainvars, purevars, tool, keep_empty, ws, src_row, books,
                   existing_titles, disk, saved, out_file, out_before, tmp,
                   rm_failed, serr>>

\* One iteration of the row loop of split_to_sheets.
SplitToSheetsRow ==
    /\ tool = "excel_split_to_sheets" /\ spc = "rows"
    /\ src_row <= SrcMaxRow
    /\ LET person == base_name(ws[src_row - 1])
           title == make_sheet_title(person, existing_titles)
       IN  IF person = <<>> /\ ~keep_empty
           THEN UNCHANGED <<books, existing_titles>>
           ELSE IF BookOf(books, person) = 0
           THEN /\ existing_titles' = existing_titles \cup {title}
                /\ books' = AddRow(Append(books, [k |-> person, title |-> title,
                                                  sheet |-> NewSheet]),
                                   person, src_row)
           ELSE /\ books' = AddRow(books, person, src_row)
                /\ UNCHANGED existing_titles
    /\ src_row' = src_row + 1
    /\ UNCHANGED <<mainvars, purevars, tool, keep_empty, ws, disk, saved,
                   out_file, out_before, tmp, rm_failed, spc, serr>>

\* safe_save_xlsx is called: os.makedirs, tempfile.mkstemp and os.close leave
\* an empty temporary file next to out_path, where a file may already be.
SafeSaveEnter(existed) ==
    /\ tool = "excel_split_to_sheets" /\ spc = "rows"
    /\ src_row = SrcMaxRow + 1
    /\ out_file' = IF existed THEN OldFile ELSE AbsentFile
    /\ out_before' = out_file'
    /\ tmp' = "empty"
    /\ spc' = "tmp"
    /\ UNCHANGED <<mainvars, purevars, tool, keep_empty, ws, src_row, books,
                   existing_titles, disk, saved, rm_failed, serr>>

\* workbook.save(tmp): it writes the workbook, or raises and leaves the file
\* empty or partly written.
SaveTmp(left) ==
    /\ spc = "tmp"
    /\ IF left = "workbook"
       THEN spc' = "saved" /\ UNCHANGED serr
       ELSE spc' = "finally" /\ serr' = "save"
    /\ tmp' = left
    /\ UNCHANGED <<mainvars, purevars, tool, keep_empty, ws, src_row, books,
                   existing_titles, disk, saved, out_file, out_before, rm_failed>>

\* _load(tmp, read_only=True, data_only=True); _wb.close()
SelfCheck(ok) ==
    /\ spc = "saved"
    /\ IF ok
       THEN spc' = "checked" /\ UNCHANGED serr
       ELSE spc' = "finally" /\ serr' = "load"
    /\ UNCHANGED <<mainvars, purevars, tool, keep_empty, ws, src_row, books,
                   existing_titles, disk, saved, out_file, out_before, tmp,
                   rm_failed>>

\* os.replace(tmp, out_path): the temporary file becomes the file at out_path,
\* or the call raises and both stay as they are.
ReplaceTmp(ok) ==
    /\ spc = "checked"
    /\ IF ok
       THEN /\ out_file' = [state |-> "new", sheets |-> books]
            /\ tmp' = "absent"
            /\ UNCHANGED serr
       ELSE /\ serr' = "replace"
            /\ UNCHANGED <<out_file, tmp>>
    /\ spc' = "finally"
    /\ UNCHANGED <<mainvars, purevars, tool, keep_empty, ws, src_row, books,
                   existing_titles, disk, saved, out_before, rm_failed>>

AfterFinally_keep(t, removed) == t

\* if os.path.exists(tmp): try: os.remove(tmp) / except: pass
AfterFinally(t, removed) == IF t # "absent" /\ removed THEN "absent" ELSE t

\* The finally clause, then the return or the pending exception.
Finally(removed) ==
    /\ spc = "finally"
    /\ tmp' = AfterFinally(tmp, removed)
    /\ rm_failed' = (tmp # "absent" /\ ~removed)
    /\ spc' = IF serr = "none" THEN "done" ELSE "raised"
    /\ UNCHANGED <<mainvars, purevars, tool, keep_empty, ws, src_row, books,
                   existing_titles, disk, saved, out_file, out_before, serr>>

NextSplit ==
    \/ SplitExcelRow
    \/ SaveBook
    \/ SplitExcelReturn
    \/ SplitToSheetsRow
    \/ \E existed \in BOOLEAN : SafeSaveEnter(existed)
    \/ \E left \in {"workbook", "empty", "partial"} : SaveTmp(left)
    \/ \E ok \in BOOLEAN : SelfCheck(ok)
    \/ \E ok \in BOOLEAN : ReplaceTmp(ok)
    \/ \E removed \in BOOLEAN : Finally(removed)

SpecSplit == InitSplit /\ [][NextSplit]_vars

\* The row loop of split_to_sheets on names whose titles collide: 31 "L"
\* followed by "A" or by "B" (the same after truncation), 29 "L" followed by
\* "_2" (what the loop tries next), "A:B", "A_B" (the same after the
\* substitution), "A_B_2", " 汇总" (the empty name) and "未命名".
LongName(tail) == [i \in 1..(TitleLimit - 2) |-> 76] \o tail

TitleSamples ==
    { LongName(<<76, 76, 65>>), LongName(<<76, 76, 66>>), LongName(<<95, 50>>),
      <<65, 58, 66>>, <<65, 95, 66>>, <<65, 95, 66, 95, 50>>,
      <<32>> \o Summary, Unnamed }

TitleColumns == UNION { [1..n -> TitleSamples] : n \in 0..MaxSrcRows }

InitTitle ==
    /\ MainAt("idle")
    /\ PureIdle
    /\ tool = "excel_split_to_sheets"
    /\ keep_empty \in BOOLEAN
    /\ ws \in TitleColumns
    /\ src_row = 2
    /\ books = <<>>
    /\ existing_titles = {}
    /\ disk = <<>>
    /\ saved = 0
    /\ out_file = AbsentFile
    /\ out_before = AbsentFile
    /\ tmp = "absent"
    /\ rm_failed = FALSE
    /\ spc = "rows"
    /\ serr = "none"

NextTitle == SplitToSheetsRow

SpecTitle == InitTitle /\ [][NextTitle]_vars

\* ------------------------------------------------------ vocabulary of claims
\* The canonical key of the ledger row at 1-based position i.
RowKey(i) == company_from_subject(df[i])

\* The keys of the rows the loop has been through.
ProcessedKeys == { RowKey(i) : i \in 1..idx }

\* The key build_pdf_map extracted for document d.
DocKey(d) == company_from_filename(scanned[d].stem)

\* The pool as a value: its keys in insertion order, each with its documents.
PoolContent ==
    [i \in 1..Len(pdf_map) |-> [k |-> pdf_map[i].k, docs |-> heap[pdf_map[i].v]]]

\* How often page <<d, p>> is in bundle b.
PageCount(b, d, p) == Cardinality({ i \in 1..Len(b) : b[i] = <<d, p>> })

InLedger == pc = "rows" \/ (pc = "ret" /\ ~unmatched.none)

\* C1: after the ledgers of a run have been merged, the keys of the global
\* leftover collection are exactly the pool's keys minus the keys seen in any
\* processed ledger (stated here for the non-empty keys, the empty key being
\* the matter of C5).
C1_LeftoversAreUnseenPoolKeys ==
    (pc \in {"main", "done"} /\ excel_n >= 1)
        => DictKeys(unmatched_global) \ {<<>>}
               = (DictKeys(pdf_map) \ allSeen) \ {<<>>}

\* C2: within one ledger, every pool key the processed rows refer to has each
\* page of each document of its bucket in the ledger's bundle exactly once,
\* however many rows normalize to that key.
C2_BucketAppendedOnce ==
    InLedger =>
        \A e \in 1..Len(pdf_map) :
            pdf_map[e].k \in ProcessedKeys =>
                \A j \in 1..Len(heap[pdf_map[e].v]) :
                    LET d == heap[pdf_map[e].v][j] IN
                    \A p \in 1..scanned[d].pages : PageCount(writer, d, p) = 1

\* Two processed rows of one ledger share a key that has a bucket.
C2_Witness ==
    /\ pc = "rows"
    /\ idx = 2
    /\ RowKey(1) = RowKey(2)
    /\ DictHas(pdf_map, RowKey(1))
    /\ Len(BucketOf(pdf_map, heap, RowKey(1))) = 2
    /\ writer # <<>>

\* C3: a ledger without the counterparty column ends only its own processing;
\* the run is not ended by it.
C3_RunSurvivesMissingColumn == ~(pc = "crashed" /\ error = "AttributeError")

\* C4: when the first row of a key is flagged Missing, every later processed
\* row with that key is in missing_rows under its own sheet row.
C4_DuplicateMissingRowsFlagged ==
    InLedger =>
        \A i \in 1..idx : \A j \in 1..idx :
            ( /\ i < j
              /\ RowKey(i) = RowKey(j)
              /\ \A h \in 1..(i - 1) : RowKey(h) # RowKey(i)
              /\ \E m \in 1..Len(missing_rows) : missing_rows[m] = SheetRow(i - 1) )
            => \E m \in 1..Len(missing_rows) : missing_rows[m] = SheetRow(j - 1)

\* C5: the empty key never produces a match: it is never consumed, and no
\* page of a document filed under the empty key enters a ledger's bundle.
C5_EmptyKeyNeverMatches ==
    /\ <<>> \notin used
    /\ \A i \in 1..Len(writer) : DocKey(writer[i][1]) # <<>>

\* C6: a key consumed while processing some ledger is in the consumed set
\* while every later ledger is processed (stated for the non-empty keys).
C6_ConsumedIsRunWide == pc = "rows" => (everUsed \ {<<>>}) \subseteq used

\* C7: in the global leftover bundle every page of every document of the pool
\* occurs at most once.
C7_LeftoverDocAtMostOnce ==
    pc = "done" =>
        \A d \in 1..Len(scanned) :
            \A p \in 1..scanned[d].pages : PageCount(writer_u, d, p) <= 1

\* The rows of df that are the first with their key, in row order.
FirstRows ==
    SelectSeq([i \in 1..Len(df) |-> i],
              LAMBDA i : \A h \in 1..(i - 1) : RowKey(h) # RowKey(i))

RECURSIVE DocsPages(_)
DocsPages(docs) ==
    IF docs = <<>> THEN <<>>
    ELSE [p \in 1..scanned[Head(docs)].pages |-> <<Head(docs), p>>]
         \o DocsPages(Tail(docs))

\* The pages of the pool's bucket for a key, documents in pool order.
KeyPages(key) ==
    IF \E e \in 1..Len(pdf_map) : pdf_map[e].k = key
    THEN DocsPages(heap[pdf_map[CHOOSE e \in 1..Len(pdf_map) : pdf_map[e].k = key].v])
    ELSE <<>>

RECURSIVE RowsPages(_)
RowsPages(rs) ==
    IF rs = <<>> THEN <<>> ELSE KeyPages(RowKey(Head(rs))) \o RowsPages(Tail(rs))

\* C8: when process_excel returns, the ledger's bundle is the concatenation,
\* over the distinct keys in the order of their first row, of the key's bucket
\* in pool order; the file written holds that bundle; and no page belongs to
\* a document whose key the ledger does not refer to.
C8_BundleIsFirstRowOrderConcat ==
    (pc = "ret" /\ ~unmatched.none) =>
        /\ writer = RowsPages(FirstRows)
        /\ out_pdf.written => out_pdf.pages = writer
        /\ \A i \in 1..Len(writer) : DocKey(writer[i][1]) \in ProcessedKeys

\* A returned ledger whose two rows match two keys in the order opposite to
\* the pool's, one of the buckets holding two documents.
C8_Witness ==
    /\ pc = "ret"
    /\ ~unmatched.none
    /\ Len(df) = 2
    /\ Len(pdf_map) = 2
    /\ RowKey(1) = pdf_map[2].k
    /\ RowKey(2) = pdf_map[1].k
    /\ Len(heap[pdf_map[1].v]) = 2
    /\ Len(writer) >= 3

\* The number of documents the pool holds for a key.
KeyDocCount(key) == Len(BucketOf(pdf_map, heap, key))

\* C9 as claimed: in the global leftover bundle the pages of a key with more
\* documents come before the pages of a key with fewer documents.
C9_LeftoverByDescendingCount ==
    pc = "done" =>
        \A i \in 1..Len(writer_u) : \A j \in 1..Len(writer_u) :
            i < j => KeyDocCount(DocKey(writer_u[i][1]))
                         >= KeyDocCount(DocKey(writer_u[j][1]))

\* C9 as amended: the global leftover bundle runs through the leftover keys in
\* ascending string order, whatever their document counts; descending
\* document count is the order of the per-ledger unmatched listing.
C9_LeftoverByAscendingKey ==
    /\ pc = "done" =>
        \A i \in 1..Len(writer_u) : \A j \in 1..Len(writer_u) :
            i < j => ~StrLess(DocKey(writer_u[j][1]), DocKey(writer_u[i][1]))
    /\ pc = "ret" =>
        \A i \in 1..Len(out_txt.lines) : \A j \in 1..Len(out_txt.lines) :
            i < j => Len(out_txt.lines[i].files) >= Len(out_txt.lines[j].files)

\* A finished run whose leftover bundle puts a key with fewer documents before
\* a key with more.
C9_Witness ==
    /\ pc = "done"
    /\ \E i \in 1..Len(writer_u) : \E j \in 1..Len(writer_u) :
        /\ i < j
        /\ KeyDocCount(DocKey(writer_u[i][1])) < KeyDocCount(DocKey(writer_u[j][1]))

\* C10: once build_pdf_map has returned, no step changes the pool (its keys,
\* their order, each key's documents and their order), and a processed row
\* whose key some ledger of the run has consumed is consumed by this ledger.
C10_PoolUnchanged ==
    /\ [][pc # "scan" => PoolContent' = PoolContent]_vars
    /\ [](pc = "rows" => (everUsed \cap ProcessedKeys) \subseteq used)

\* The second ledger of a run matches a key the first ledger referred to,
\* with a leftover of the first ledger already merged.
C10_Witness ==
    /\ pc = "rows"
    /\ excel_n = 2
    /\ unmatched_global # <<>>
    /\ \E k \in used : k \in allSeen /\ k # <<>>


\* C11: a stored document that PdfReader cannot open never ends the run: its
\* pages are left out and the rest of the bundle is still produced.
C11_UnreadableDocumentIsSkipped == ~(pc = "crashed" /\ error = "PdfReadError")

\* C12: when a ledger has been processed, its bundle file exists exactly when
\* at least one page was collected; the annotated copy of the ledger is
\* written either way and carries the red rows recorded during the loop, so a
\* ledger whose rows all lack documents yields a copy and no bundle.
C12_BundleOnlyWithPages ==
    (pc = "ret" /\ ~unmatched.none) =>
        /\ out_pdf.written <=> Len(writer) >= 1
        /\ out_pdf.written => out_pdf.pages = writer
        /\ out_excel.written /\ out_excel.red = missing_rows
        /\ (\A i \in 1..Len(df) : BucketOf(pdf_map, heap, RowKey(i)) = <<>>) =>
               ~out_pdf.written

C12_Witness ==
    /\ pc = "ret" /\ ~unmatched.none
    /\ Len(df) = MaxRows
    /\ Len(missing_rows) >= 1
    /\ ~out_pdf.written /\ out_excel.written

\* The 1-based ledger positions, in increasing order, of the rows that are the
\* first of their key among the rows handled so far and whose key has no
\* stored document.
FlaggedPositions ==
    SelectSeq([i \in 1..idx |-> i],
              LAMBDA i : /\ \A j \in 1..(i - 1) : RowKey(j) # RowKey(i)
                         /\ \A e \in 1..Len(pdf_map) :
                               pdf_map[e].k = RowKey(i) => heap[pdf_map[e].v] = <<>>)

SlotsOf(d) ==
    Cardinality({ s \in (1..Len(pdf_map)) \X (1..Len(scanned)) :
                    /\ s[2] <= Len(heap[pdf_map[s[1]].v])
                    /\ heap[pdf_map[s[1]].v][s[2]] = d })

RECURSIVE BucketSizes(_)
BucketSizes(e) ==
    IF e = 0 THEN 0 ELSE Len(heap[pdf_map[e].v]) + BucketSizes(e - 1)

\* C20: the pool partitions the qualifying files: every scanned document sits
\* in exactly one bucket, the bucket of its filename key, buckets list their
\* documents in discovery order, no bucket is empty, no key has two buckets,
\* and the bucket sizes add up to the number of scanned documents.
C20_PoolPartitionsDocuments ==
    /\ \A d \in 1..Len(scanned) :
          /\ SlotsOf(d) = 1
          /\ \E e \in 1..Len(pdf_map) :
                /\ pdf_map[e].k = DocKey(d)
                /\ \E j \in 1..Len(heap[pdf_map[e].v]) : heap[pdf_map[e].v][j] = d
    /\ \A e \in 1..Len(pdf_map) :
          LET b == heap[pdf_map[e].v]
          IN  /\ b # <<>>
              /\ \A j \in 1..(Len(b) - 1) : b[j] < b[j + 1]
              /\ \A e2 \in 1..Len(pdf_map) : pdf_map[e2].k = pdf_map[e].k => e2 = e
    /\ BucketSizes(Len(pdf_map)) = Len(scanned)
    /\ \A d \in 1..Len(scanned) : is_pdf_file(scanned[d])

C20_Witness ==
    /\ pc = "main"
    /\ Len(scanned) = MaxFiles
    /\ \E e \in 1..Len(pdf_map) : Len(heap[pdf_map[e].v]) = 2
    /\ \E d \in 1..Len(scanned) : ~scanned[d].suffix

\* C13: norm is idempotent: applying norm to a result of norm gives that
\* result back.
C13_NormIdempotent == pstep = "again" => ret2 = ret

\* C14: two strings that differ only by letter case, by whitespace, by
\* full-width versus half-width forms or by the presence of a listed bracket
\* get the same key.  Arguments with a combining mark are left out here: what
\* norm does to them is the matter of C13.
C14_NormIgnoresCaseWidthSpaceBrackets ==
    (pstep = "alt" /\ \A i \in 1..Len(txt) : txt[i] # 769) => altret = ret

\* Exactly 14 digits.
FourteenDigits(seg) == Len(seg) = 14 /\ \A i \in 1..Len(seg) : IsDigit(seg[i])

\* The positions of the segments that are not exactly 14 digits.
PlainSegs == { i \in 1..Len(segs) : ~FourteenDigits(segs[i]) }

\* C18: for a stem joined from segs with underscores, company_from_filename
\* returns norm of the second segment when there are exactly two; otherwise
\* norm of the last segment that is not exactly 14 digits; norm of the whole
\* stem when every segment is 14 digits; and norm of the whole stem when
\* there is no underscore.
C18_CompanyFromFilenameCases ==
    (fn = "company_from_filename" /\ pstep = "out") =>
        /\ Len(segs) = 2 => ret = norm(segs[2])
        /\ (Len(segs) # 2 /\ PlainSegs # {}) =>
               ret = norm(segs[CHOOSE i \in PlainSegs : \A j \in PlainSegs : j <= i])
        /\ (Len(segs) # 2 /\ PlainSegs = {}) => ret = norm(txt)
        /\ Len(segs) = 1 => ret = norm(txt)

C18_Witness ==
    /\ fn = "company_from_filename" /\ pstep = "out"
    /\ Len(segs) = 3
    /\ PlainSegs = {1, 2}
    /\ ret = <<65, 66>>

\* The per-person outputs a finished run has produced: the workbooks in the
\* files split_excel saved, the sheets of the file split_to_sheets saved.
Outputs ==
    IF tool = "split_by_person" THEN [i \in 1..Len(disk) |-> disk[i].wb]
    ELSE out_file.sheets

\* The outputs that hold a copy of source row r.
HoldersOf(r) ==
    { i \in 1..Len(Outputs) :
        \E j \in 2..Len(Outputs[i].sheet) : Outputs[i].sheet[j] = r }

\* How many rows of the outputs are copies of source row r.
CopiesOf(r) ==
    Cardinality({ c \in (1..Len(Outputs)) \X (2..(SrcMaxRow + 1)) :
                    /\ c[2] <= Len(Outputs[c[1]].sheet)
                    /\ Outputs[c[1]].sheet[c[2]] = r })

\* C15: when a split has finished, every data row with a non-empty base name
\* has exactly one copy in the outputs, in the output of its base name; the
\* rows of an output are in source order below the header; a row named
\* 'X 汇总' is in the output of X; rows with an empty base name are in no
\* output unless keep_empty is set.
C15_RowsGroupedByBaseName ==
    (spc = "done") =>
        /\ \A r \in 2..SrcMaxRow :
              LET b == base_name(ws[r - 1]) IN
              IF b = <<>> /\ ~keep_empty THEN CopiesOf(r) = 0
              ELSE /\ CopiesOf(r) = 1
                   /\ \A i \in HoldersOf(r) : Outputs[i].k = b
        /\ \A i \in 1..Len(Outputs) :
              /\ Outputs[i].sheet[1] = 1
              /\ \A j \in 2..(Len(Outputs[i].sheet) - 1) :
                    Outputs[i].sheet[j] < Outputs[i].sheet[j + 1]

\* C16: split_excel saves one file per person: two distinct persons of books
\* never get the same output path, and after the save phase every person's
\* workbook is the content of the file at that person's path.
C16_OneFilePerPerson ==
    (tool = "split_by_person" /\ spc = "done") =>
        /\ \A i, j \in 1..Len(books) :
              i # j => OutPath(books[i].k) # OutPath(books[j].k)
        /\ \A i \in 1..Len(books) :
              \E f \in 1..Len(disk) :
                  disk[f].path = OutPath(books[i].k) /\ disk[f].wb = books[i]

\* safe_save_xlsx has returned or raised.
SafeSaveOver == tool = "excel_split_to_sheets" /\ spc \in {"done", "raised"}

\* C17 as stated: if saving to the temporary file or the self-check fails the
\* file at out_path is as it was before the call, and whether the call
\* returns or raises the temporary file no longer exists.
C17_TargetKeptAndTmpGone ==
    SafeSaveOver =>
        /\ serr \in {"save", "load"} => out_file = out_before
        /\ tmp = "absent"

\* C17 amended: if saving to the temporary file or the self-check fails the
\* file at out_path is as it was before the call; after a return the
\* temporary file no longer exists and the workbook is at out_path; after a
\* raise the temporary file no longer exists unless os.remove on it failed.
C17_TargetKeptAndTmpGoneUnlessRemoveFails ==
    SafeSaveOver =>
        /\ serr \in {"save", "load"} => out_file = out_before
        /\ spc = "done" =>
              tmp = "absent" /\ out_file = [state |-> "new", sheets |-> books]
        /\ tmp # "absent" => rm_failed

C17_Witness ==
    /\ SafeSaveOver
    /\ spc = "raised" /\ serr = "load"
    /\ Len(books) >= 1
    /\ out_before = OldFile /\ out_file = OldFile
    /\ tmp = "absent" /\ ~rm_failed

\* The i-th title the loop of make_sheet_title tries for a person: the
\* sanitized name cut to the limit, then that name cut to make room for "_i".
Candidate(person, i) ==
    LET base == make_sheet_title(person, {})
        suffix == <<95>> \o Digits(i)
    IN  IF i = 1 THEN base
        ELSE SliceTo(base, TitleLimit - Len(suffix)) \o suffix

\* A row of a new person gave books one more sheet: its title is not among
\* the titles existing before, has at most 31 characters, is added to the
\* existing titles, and is one of the first n + 1 titles the loop tries, n
\* the number of existing titles (the loop ends after at most n rounds).
NewTitleIsFresh ==
    Len(books') = Len(books) + 1 =>
        LET new == books'[Len(books')] IN
        /\ new.title \notin existing_titles
        /\ Len(new.title) <= TitleLimit
        /\ existing_titles' = existing_titles \cup {new.title}
        /\ \E i \in 1..(Cardinality(existing_titles) + 1) :
              new.title = Candidate(new.k, i)

\* Distinct persons have distinct sheets with distinct titles of at most 31
\* characters, and the existing titles are the titles of the sheets.
TitlesDistinct ==
    /\ \A i, j \in 1..Len(books) :
          i # j => books[i].k # books[j].k /\ books[i].title # books[j].title
    /\ \A i \in 1..Len(books) : Len(books[i].title) <= TitleLimit
    /\ existing_titles = { books[i].title : i \in 1..Len(books) }

\* C21: make_sheet_title terminates and returns a title of at most 31
\* characters that is not in the set of existing titles; so in
\* split_to_sheets, after any sequence of rows, distinct person names have
\* distinct sheet titles, also when their sanitized or truncated names
\* coincide.
C21_SheetTitlesFreshAndDistinct == [][NewTitleIsFresh]_vars /\ []TitlesDistinct

\* Three persons whose names are the same after truncation or are what the
\* loop tries next: the third title is the third the loop tried.
C21_Witness ==
    /\ tool = "excel_split_to_sheets"
    /\ Len(books) = 3
    /\ \A i \in 1..3 : Len(books[i].k) >= TitleLimit
    /\ books[3].title = LongName(<<95, 51>>)
====
